---- MODULE Spec2Model ----
(***************************************************************************)
(* Model of the stopwatch component src/src/App.tsx: the elapsed-time      *)
(* state, the start / pause / reset handlers, the 10 ms sampling interval  *)
(* and the lap bookkeeping.  The decorative animation state (floating      *)
(* clocks, particles) never reaches the timekeeping state and is left out. *)
(*                                                                         *)
(* Time is counted in milliseconds of Date.now().  The wall clock advances *)
(* in unit steps (Advance); an interval callback may fire at any instant   *)
(* while its handle is live, so any spacing of ticks is covered.           *)
(*                                                                         *)
(* The handlers are closures created by a render: they read isRunning,     *)
(* time and lapTimes as of that render (the record "rendered"), while the  *)
(* refs (intervalRef, startTimeRef, lapCounter) are read live.  Under Spec *)
(* every event is followed by the re-render React performs before the next *)
(* event is dispatched.  The handlers are offered in every state of the    *)
(* mounted component, also where the buttons would not call them (start    *)
(* while running, pause while stopped), so that their own guards decide.   *)
(* Date.now() is taken to be non-decreasing.                               *)
(*                                                                         *)
(* Specifications: Spec (the handlers called directly), SpecUI (the        *)
(* keydown listener and the buttons), SpecFormat (the display at large     *)
(* elapsed times), SpecLive (the timer engine under fairness of the clock  *)
(* and the interval) and SpecPending (events handled before the component  *)
(* re-renders).                                                            *)
(***************************************************************************)
EXTENDS Integers, Sequences, FiniteSets, TLC

\* Bounds of the model.
MaxNow == 4        \* the wall clock runs from 0 to MaxNow
MaxLaps == 3       \* recordLap is not offered beyond MaxLaps entries
MaxTimers == 2     \* interval handles are drawn from 1..MaxTimers
MaxKeyLaps == 1    \* the keyboard and the Lap button record at most MaxKeyLaps laps

\* intervalRef.current when no interval is installed (useRef(null)).
null == 0

VARIABLES
    time,          \* useState(0): elapsed milliseconds
    isRunning,     \* useState(false)
    lapTimes,      \* useState<LapTime[]>([])
    intervalRef,   \* useRef(null): handle of the sampling interval
    startTimeRef,  \* useRef(0): reference origin
    lapCounter,    \* useRef(1): number of the next lap
    rendered,      \* the state values captured by the handlers' closures
    timers,        \* handles of the intervals that are live in the browser
    now,           \* Date.now()
    mounted,       \* the component is mounted
    display,       \* the time display of the last render: formatTime(time)
    event,         \* the last keydown event handled, with its defaultPrevented flag
    fresh,         \* a freshly created instance, driven by the same operations
    started,       \* history: wall clock and elapsed time at the last effective start
    cleared,       \* history: laps were cleared during the current run of the clock
    op,            \* history: the last operation performed
    before         \* history: the program state the last operation started from

vars == <<time, isRunning, lapTimes, intervalRef, startTimeRef, lapCounter,
          rendered, timers, now, mounted, display, event, fresh, started, cleared, op, before>>

prog == <<time, isRunning, lapTimes, intervalRef, startTimeRef, lapCounter, timers>>

\* The program state as one record (what "before" remembers).
Snapshot ==
    [time |-> time, isRunning |-> isRunning, lapTimes |-> lapTimes,
     intervalRef |-> intervalRef, startTimeRef |-> startTimeRef,
     lapCounter |-> lapCounter, timers |-> timers]

\* The values a render hands to the closures it creates.
Closure(t, r, l) == [time |-> t, isRunning |-> r, lapTimes |-> l]

----------------------------------------------------------------------------
\* Pure pieces of the handlers.

\* startTimeRef.current = Date.now() - time, for Date.now() = n and time = t.
\* (Faulty variant: the origin forgets the time accumulated before a pause.)
StartOriginFromZero(n, t) == n
StartOrigin(n, t) == n - t

\* setTime(Date.now() - startTimeRef.current), for Date.now() = n; t is the
\* elapsed time shown before the tick, which the callback does not read.
\* (Faulty variant: the callback counts ticks instead of reading the clock.)
SampleByCount(n, origin, t) == t + 1
Sample(n, origin, t) == n - origin

\* setInterval returns a handle that no live interval has.
FreshHandle(live) == CHOOSE h \in (1..MaxTimers) \ live :
                        \A g \in (1..MaxTimers) \ live : h <= g

\* clearInterval(h)
ClearInterval(live, h) == live \ {h}

\* The LapTime object recordLap builds, for Date.now() = n,
\* lapCounter.current = counter, time = t and lapTimes = laps.
\* (Faulty variants: the split is not taken against the previous lap; the
\* lap number is taken from the length of the history.)
NewLapNoSplit(n, counter, t, laps) ==
    [id |-> n, lapNumber |-> counter, lapTime |-> t, totalTime |-> t]
NewLapBySize(n, counter, t, laps) ==
    [id |-> n,
     lapNumber |-> Len(laps),
     lapTime |-> IF Len(laps) > 0 THEN t - laps[Len(laps)].totalTime ELSE t,
     totalTime |-> t]
NewLap(n, counter, t, laps) ==
    [id |-> n,
     lapNumber |-> counter,
     lapTime |-> IF Len(laps) > 0 THEN t - laps[Len(laps)].totalTime ELSE t,
     totalTime |-> t]

----------------------------------------------------------------------------
\* formatTime.  A string is the sequence of its characters.

\* Number.prototype.toString() of a natural number.
DigitChar(d) == <<"0", "1", "2", "3", "4", "5", "6", "7", "8", "9">>[d + 1]

RECURSIVE toString(_)
toString(n) ==
    IF n < 10 THEN <<DigitChar(n)>>
    ELSE toString(n \div 10) \o <<DigitChar(n % 10)>>

\* String.prototype.padStart(targetLength, padChar) with a one-character pad.
padStart(str, targetLength, padChar) ==
    IF Len(str) >= targetLength THEN str
    ELSE [i \in 1..(targetLength - Len(str)) |-> padChar] \o str

\* (Faulty variant: the centiseconds are rounded, not truncated.)
formatTimeRounded(timeMs) ==
    LET minutes == timeMs \div 60000
        seconds == (timeMs % 60000) \div 1000
        milliseconds == ((timeMs % 1000) + 5) \div 10
    IN  padStart(toString(minutes), 2, "0") \o <<":">>
           \o padStart(toString(seconds), 2, "0") \o <<".">>
           \o padStart(toString(milliseconds), 2, "0")
formatTime(timeMs) ==
    LET minutes == timeMs \div 60000
        seconds == (timeMs % 60000) \div 1000
        milliseconds == (timeMs % 1000) \div 10
    IN  padStart(toString(minutes), 2, "0") \o <<":">>
           \o padStart(toString(seconds), 2, "0") \o <<".">>
           \o padStart(toString(milliseconds), 2, "0")

----------------------------------------------------------------------------
\* The handlers, as they act on the program state.

\* (Faulty variant: no interval is installed.)
startStopwatchNoInterval ==
    IF ~rendered.isRunning
    THEN /\ startTimeRef' = StartOrigin(now, rendered.time)
         /\ isRunning' = TRUE
         /\ UNCHANGED <<time, lapTimes, lapCounter, intervalRef, timers>>
    ELSE UNCHANGED prog
\* (Faulty variant: no test of isRunning.)
startStopwatchUnguarded ==
    /\ (1..MaxTimers) \ timers # {}
    /\ startTimeRef' = StartOrigin(now, rendered.time)
    /\ intervalRef' = FreshHandle(timers)
    /\ timers' = timers \cup {FreshHandle(timers)}
    /\ isRunning' = TRUE
    /\ UNCHANGED <<time, lapTimes, lapCounter>>
startStopwatch ==
    IF ~rendered.isRunning
    THEN /\ (1..MaxTimers) \ timers # {}
         /\ startTimeRef' = StartOrigin(now, rendered.time)
         /\ intervalRef' = FreshHandle(timers)
         /\ timers' = timers \cup {FreshHandle(timers)}
         /\ isRunning' = TRUE
         /\ UNCHANGED <<time, lapTimes, lapCounter>>
    ELSE UNCHANGED prog

\* (Faulty variant: the interval is not cleared.)
pauseStopwatchKeepInterval ==
    /\ isRunning' = FALSE
    /\ UNCHANGED <<time, lapTimes, lapCounter, startTimeRef, intervalRef, timers>>
pauseStopwatch ==
    /\ IF intervalRef # null
       THEN /\ timers' = ClearInterval(timers, intervalRef)
            /\ intervalRef' = null
       ELSE UNCHANGED <<timers, intervalRef>>
    /\ isRunning' = FALSE
    /\ UNCHANGED <<time, lapTimes, lapCounter, startTimeRef>>

\* (Faulty variant: the laps are not emptied.)
resetStopwatchKeepLaps ==
    /\ IF intervalRef # null
       THEN /\ timers' = ClearInterval(timers, intervalRef)
            /\ intervalRef' = null
       ELSE UNCHANGED <<timers, intervalRef>>
    /\ time' = 0
    /\ isRunning' = FALSE
    /\ lapCounter' = 1
    /\ UNCHANGED <<startTimeRef, lapTimes>>
\* (Faulty variant: lapCounter is not put back to 1.)
resetStopwatchKeepCounter ==
    /\ IF intervalRef # null
       THEN /\ timers' = ClearInterval(timers, intervalRef)
            /\ intervalRef' = null
       ELSE UNCHANGED <<timers, intervalRef>>
    /\ time' = 0
    /\ isRunning' = FALSE
    /\ lapTimes' = <<>>
    /\ UNCHANGED <<startTimeRef, lapCounter>>
resetStopwatch ==
    /\ IF intervalRef # null
       THEN /\ timers' = ClearInterval(timers, intervalRef)
            /\ intervalRef' = null
       ELSE UNCHANGED <<timers, intervalRef>>
    /\ time' = 0
    /\ isRunning' = FALSE
    /\ lapTimes' = <<>>
    /\ lapCounter' = 1
    /\ UNCHANGED startTimeRef

\* (Faulty variant: the new lap is put in front of the history.)
recordLapPrepend ==
    IF rendered.isRunning /\ rendered.time > 0
    THEN /\ lapTimes' = <<NewLap(now, lapCounter, rendered.time, rendered.lapTimes)>>
                            \o lapTimes
         /\ lapCounter' = lapCounter + 1
         /\ UNCHANGED <<time, isRunning, intervalRef, startTimeRef, timers>>
    ELSE UNCHANGED prog
\* (Faulty variant: lapCounter is not incremented.)
recordLapNoIncrement ==
    IF rendered.isRunning /\ rendered.time > 0
    THEN /\ lapTimes' = Append(lapTimes,
                               NewLap(now, lapCounter, rendered.time, rendered.lapTimes))
         /\ UNCHANGED <<lapCounter, time, isRunning, intervalRef, startTimeRef, timers>>
    ELSE UNCHANGED prog
\* (Faulty variant: no test of isRunning and time.)
recordLapUnguarded ==
    /\ lapTimes' = Append(lapTimes,
                          NewLap(now, lapCounter, rendered.time, rendered.lapTimes))
    /\ lapCounter' = lapCounter + 1
    /\ UNCHANGED <<time, isRunning, intervalRef, startTimeRef, timers>>
recordLap ==
    IF rendered.isRunning /\ rendered.time > 0
    THEN /\ lapTimes' = Append(lapTimes,
                               NewLap(now, lapCounter, rendered.time, rendered.lapTimes))
         /\ lapCounter' = lapCounter + 1
         /\ UNCHANGED <<time, isRunning, intervalRef, startTimeRef, timers>>
    ELSE UNCHANGED prog

\* (Faulty variant: lapCounter is not put back to 1.)
clearLapsKeepCounter ==
    /\ lapTimes' = <<>>
    /\ UNCHANGED <<lapCounter, time, isRunning, intervalRef, startTimeRef, timers>>
clearLaps ==
    /\ lapTimes' = <<>>
    /\ lapCounter' = 1
    /\ UNCHANGED <<time, isRunning, intervalRef, startTimeRef, timers>>

\* The callback of the sampling interval.
intervalCallback ==
    /\ time' = Sample(now, startTimeRef, time)
    /\ UNCHANGED <<isRunning, lapTimes, intervalRef, startTimeRef, lapCounter, timers>>

\* The cleanup of the unmount effect.
\* (Faulty variant: the interval is left running.)
unmountCleanupNone == UNCHANGED prog
unmountCleanup ==
    /\ IF intervalRef # null
       THEN timers' = ClearInterval(timers, intervalRef)
       ELSE UNCHANGED timers
    /\ UNCHANGED <<time, isRunning, lapTimes, intervalRef, startTimeRef, lapCounter>>

----------------------------------------------------------------------------
\* The keydown listener.  A KeyboardEvent is a record of its code and its
\* ctrlKey and metaKey flags; defaultPrevented is set by preventDefault().

KeyCodes == {"Space", "KeyR", "KeyL", "KeyA"}

KeyboardEvent(code, ctrl, meta) ==
    [code |-> code, ctrlKey |-> ctrl, metaKey |-> meta, defaultPrevented |-> FALSE]

\* No keydown event was handled in the last step.
NoEvent == [code |-> "none", ctrlKey |-> FALSE, metaKey |-> FALSE,
            defaultPrevented |-> FALSE]

\* The handler the switch of handleKeyPress reaches for event e ("none" when
\* it reaches none).
\* (Faulty variant: only the Ctrl key is accepted as the modifier.)
KeyTargetCtrlOnly(e) ==
    IF e.code = "Space"
    THEN (IF rendered.isRunning THEN "pause" ELSE "start")
    ELSE IF e.code = "KeyR" /\ e.ctrlKey THEN "reset"
    ELSE IF e.code = "KeyL" /\ e.ctrlKey THEN "recordLap"
    ELSE "none"
KeyTarget(e) ==
    IF e.code = "Space"
    THEN (IF rendered.isRunning THEN "pause" ELSE "start")
    ELSE IF e.code = "KeyR" /\ (e.ctrlKey \/ e.metaKey) THEN "reset"
    ELSE IF e.code = "KeyL" /\ (e.ctrlKey \/ e.metaKey) THEN "recordLap"
    ELSE "none"

\* The branches of handleKeyPress that call event.preventDefault().
PreventsDefault(e) ==
    \/ e.code = "Space"
    \/ e.code = "KeyR" /\ (e.ctrlKey \/ e.metaKey)
    \/ e.code = "KeyL" /\ (e.ctrlKey \/ e.metaKey)

handleKeyPress(e) ==
    /\ event' = [e EXCEPT !.defaultPrevented = PreventsDefault(e)]
    /\ CASE KeyTarget(e) = "pause" -> pauseStopwatch
         [] KeyTarget(e) = "start" -> startStopwatch
         [] KeyTarget(e) = "reset" -> resetStopwatch
         [] KeyTarget(e) = "recordLap" -> recordLap
         [] OTHER -> UNCHANGED prog

----------------------------------------------------------------------------
\* The re-render that follows an event: new closures over the new state.
Render == /\ rendered' = Closure(time', isRunning', lapTimes')
          /\ display' = formatTime(time')

\* A second instance of the component, created when the first one is reset
\* and from then on given the same operations at the same offsets from its
\* creation, each followed by its re-render.  It is a record of the state of
\* an instance and of the instant "born" of its creation; its Date.now() is
\* counted from that instant.
FreshInstance(n) ==
    [time |-> 0, isRunning |-> FALSE, lapTimes |-> <<>>, intervalRef |-> null,
     startTimeRef |-> 0, lapCounter |-> 1, timers |-> {}, born |-> n]

FreshStep(o, f, n) ==
    CASE o = "start" ->
            IF ~f.isRunning
            THEN [f EXCEPT !.startTimeRef = StartOrigin(n, f.time),
                           !.intervalRef = FreshHandle(f.timers),
                           !.timers = f.timers \cup {FreshHandle(f.timers)},
                           !.isRunning = TRUE]
            ELSE f
      [] o = "pause" ->
            [f EXCEPT !.timers = IF f.intervalRef # null
                                  THEN ClearInterval(f.timers, f.intervalRef)
                                  ELSE f.timers,
                      !.intervalRef = null,
                      !.isRunning = FALSE]
      [] o = "recordLap" ->
            IF f.isRunning /\ f.time > 0
            THEN [f EXCEPT !.lapTimes = Append(f.lapTimes,
                                NewLap(n, f.lapCounter, f.time, f.lapTimes)),
                           !.lapCounter = f.lapCounter + 1]
            ELSE f
      [] o = "clear" ->
            [f EXCEPT !.lapTimes = <<>>, !.lapCounter = 1]
      [] o = "tick" ->
            IF f.timers # {}
            THEN [f EXCEPT !.time = Sample(n, f.startTimeRef, f.time)]
            ELSE f
      [] o = "unmount" ->
            [f EXCEPT !.timers = IF f.intervalRef # null
                                  THEN ClearInterval(f.timers, f.intervalRef)
                                  ELSE f.timers]
      [] OTHER -> f

\* The fresh instance after the step that performs operation o.
Shadow(o) ==
    fresh' = IF o = "reset" THEN FreshInstance(now)
             ELSE FreshStep(o, fresh, now - fresh.born)

\* History bookkeeping of a step performing operation o (no counterpart in
\* the code: op and before only serve to state the properties).
Did(o) == /\ op' = o
          /\ before' = Snapshot
          /\ event' = NoEvent
          /\ Shadow(o)

Init ==
    /\ time = 0
    /\ isRunning = FALSE
    /\ lapTimes = <<>>
    /\ intervalRef = null
    /\ startTimeRef = 0
    /\ lapCounter = 1
    /\ rendered = Closure(0, FALSE, <<>>)
    /\ timers = {}
    /\ now = 0
    /\ mounted = TRUE
    /\ display = formatTime(0)
    /\ event = NoEvent
    /\ fresh = FreshInstance(0)
    /\ started = [at |-> 0, elapsed |-> 0]
    /\ cleared = FALSE
    /\ op = "init"
    /\ before = [time |-> 0, isRunning |-> FALSE, lapTimes |-> <<>>,
                 intervalRef |-> null, startTimeRef |-> 0,
                 lapCounter |-> 1, timers |-> {}]

Start ==
    /\ mounted
    /\ startStopwatch
    /\ Render
    /\ started' = IF ~rendered.isRunning
                  THEN [at |-> now, elapsed |-> rendered.time]
                  ELSE started
    /\ Did("start")
    /\ UNCHANGED <<now, mounted, cleared>>

Pause ==
    /\ mounted
    /\ pauseStopwatch
    /\ Render
    /\ cleared' = FALSE
    /\ Did("pause")
    /\ UNCHANGED <<now, mounted, started>>

Reset ==
    /\ mounted
    /\ resetStopwatch
    /\ Render
    /\ cleared' = FALSE
    /\ Did("reset")
    /\ UNCHANGED <<now, mounted, started>>

RecordLap ==
    /\ mounted
    /\ Len(lapTimes) < MaxLaps
    /\ recordLap
    /\ Render
    /\ Did("recordLap")
    /\ UNCHANGED <<now, mounted, started, cleared>>

ClearLaps ==
    /\ mounted
    /\ clearLaps
    /\ Render
    /\ cleared' = (cleared \/ (isRunning /\ lapTimes # <<>>))
    /\ Did("clear")
    /\ UNCHANGED <<now, mounted, started>>

Tick ==
    /\ mounted
    /\ \E h \in timers : intervalCallback
    /\ Render
    /\ Did("tick")
    /\ UNCHANGED <<now, mounted, started, cleared>>

Advance ==
    /\ now < MaxNow
    /\ now' = now + 1
    /\ Did("advance")
    /\ UNCHANGED <<prog, rendered, display, mounted, started, cleared>>

Unmount ==
    /\ mounted
    /\ mounted' = FALSE
    /\ unmountCleanup
    /\ Did("unmount")
    /\ UNCHANGED <<rendered, display, now, started, cleared>>

\* A keydown event on the window, dispatched to handleKeyPress.
KeyDown ==
    /\ mounted
    /\ \E code \in KeyCodes, ctrl \in BOOLEAN, meta \in BOOLEAN :
          LET e == KeyboardEvent(code, ctrl, meta) IN
          /\ KeyTarget(e) = "recordLap" => Len(lapTimes) < MaxKeyLaps
          /\ handleKeyPress(e)
          /\ op' = KeyTarget(e)
          /\ Shadow(KeyTarget(e))
          /\ started' = IF KeyTarget(e) = "start" /\ ~rendered.isRunning
                        THEN [at |-> now, elapsed |-> rendered.time]
                        ELSE started
          /\ cleared' = IF KeyTarget(e) \in {"pause", "reset"} THEN FALSE ELSE cleared
    /\ before' = Snapshot
    /\ Render
    /\ UNCHANGED <<now, mounted>>

\* The Start / Pause button: onClick={isRunning ? pauseStopwatch : startStopwatch}.
ClickStartPause ==
    /\ mounted
    /\ IF rendered.isRunning THEN pauseStopwatch ELSE startStopwatch
    /\ Render
    /\ started' = IF ~rendered.isRunning
                  THEN [at |-> now, elapsed |-> rendered.time]
                  ELSE started
    /\ cleared' = IF rendered.isRunning THEN FALSE ELSE cleared
    /\ Did(IF rendered.isRunning THEN "pause" ELSE "start")
    /\ UNCHANGED <<now, mounted>>

\* The Lap button: disabled={!isRunning || time === 0}.
LapDisabled == ~rendered.isRunning \/ rendered.time = 0

ClickLap ==
    /\ ~LapDisabled
    /\ Len(lapTimes) < MaxKeyLaps
    /\ RecordLap

\* The Clear button: disabled={lapTimes.length === 0}.
ClickClear ==
    /\ ~(Len(rendered.lapTimes) = 0)
    /\ ClearLaps

Next ==
    \/ Start
    \/ Pause
    \/ Reset
    \/ RecordLap
    \/ ClearLaps
    \/ Tick
    \/ Advance
    \/ Unmount

Spec == Init /\ [][Next]_vars

\* The component as the page drives it: keys, buttons and the interval.
NextUI ==
    \/ KeyDown
    \/ ClickStartPause
    \/ ClickLap
    \/ ClickClear
    \/ Tick
    \/ Advance

SpecUI == Init /\ [][NextUI]_vars

\* The timer engine alone (the lap operations write neither the elapsed
\* time nor the interval), with the wall clock going on up to MaxNow and
\* setInterval calling the callback of a live interval again and again.
NextLive ==
    \/ Start
    \/ Pause
    \/ Reset
    \/ Tick
    \/ Advance
    \/ Unmount

SpecLive == Init /\ [][NextLive]_vars /\ WF_vars(Advance) /\ WF_vars(Tick)

\* Events handled before the component re-renders: the handlers run with the
\* closures of the last render, and the re-render comes as a step of its own
\* (two keydown events dispatched in one task; a render that is batched or
\* deferred).
StartPending ==
    /\ mounted
    /\ startStopwatch
    /\ started' = IF ~rendered.isRunning
                  THEN [at |-> now, elapsed |-> rendered.time]
                  ELSE started
    /\ Did("start")
    /\ UNCHANGED <<rendered, display, now, mounted, cleared>>

PausePending ==
    /\ mounted
    /\ pauseStopwatch
    /\ Did("pause")
    /\ UNCHANGED <<rendered, display, now, mounted, started, cleared>>

ResetPending ==
    /\ mounted
    /\ resetStopwatch
    /\ Did("reset")
    /\ UNCHANGED <<rendered, display, now, mounted, started, cleared>>

TickPending ==
    /\ mounted
    /\ \E h \in timers : intervalCallback
    /\ Did("tick")
    /\ UNCHANGED <<rendered, display, now, mounted, started, cleared>>

Rerender ==
    /\ mounted
    /\ rendered' = Closure(time, isRunning, lapTimes)
    /\ display' = formatTime(time)
    /\ op' = "render"
    /\ before' = Snapshot
    /\ UNCHANGED <<prog, now, mounted, event, fresh, started, cleared>>

NextPending ==
    \/ StartPending
    \/ PausePending
    \/ ResetPending
    \/ TickPending
    \/ Rerender
    \/ Advance

SpecPending == Init /\ [][NextPending]_vars

\* The elapsed times at which the display is examined: minutes, seconds and
\* milliseconds around the places where a field gains a digit or wraps.
FormatTimes ==
    { m * 60000 + sec * 1000 + ms :
        m \in {0, 1, 9, 10, 99, 100, 1000},
        sec \in {0, 1, 9, 10, 59},
        ms \in {0, 5, 9, 10, 999} }

\* The stopwatch after it was started at instant 0 and paused at an instant
\* of FormatTimes, right after a tick.
InitFormat ==
    \E t \in FormatTimes :
        /\ time = t
        /\ isRunning = FALSE
        /\ lapTimes = <<>>
        /\ intervalRef = null
        /\ startTimeRef = 0
        /\ lapCounter = 1
        /\ rendered = Closure(t, FALSE, <<>>)
        /\ timers = {}
        /\ now = t
        /\ mounted = TRUE
        /\ display = formatTime(t)
        /\ event = NoEvent
        /\ fresh = [FreshInstance(0) EXCEPT !.time = t]
        /\ started = [at |-> 0, elapsed |-> 0]
        /\ cleared = FALSE
        /\ op = "pause"
        /\ before = [time |-> t, isRunning |-> TRUE, lapTimes |-> <<>>,
                     intervalRef |-> 1, startTimeRef |-> 0,
                     lapCounter |-> 1, timers |-> {1}]

NextFormat ==
    \/ Start
    \/ Pause
    \/ Reset
    \/ Tick

SpecFormat == InitFormat /\ [][NextFormat]_vars

----------------------------------------------------------------------------
\* Helpers of the properties.

Last(s) == s[Len(s)]

RECURSIVE SumLapTime(_)
SumLapTime(laps) ==
    IF laps = <<>> THEN 0 ELSE laps[1].lapTime + SumLapTime(Tail(laps))

\* The operation was performed on a running (stopped) clock.
WasRunning == before.isRunning
WasStopped == ~before.isRunning

----------------------------------------------------------------------------
\* C1: a sampling tick that fires at instant n after a start performed at
\* instant s with frozen elapsed time p sets the elapsed time to exactly
\* p + (n - s), however many ticks fired before it and however they were
\* spaced; a start leaves the elapsed time at p until the first tick, so a
\* start immediately followed by a pause keeps p (0 on a fresh stopwatch).
C1_TickIsWallClockDelta ==
    /\ op = "tick" => time = started.elapsed + (now - started.at)
    /\ op = "start" /\ WasStopped =>
          /\ time = before.time
          /\ started = [at |-> now, elapsed |-> before.time]
    /\ op = "pause" => time = before.time

\* A tick after a pause, an idle gap and a restart, which skips two or more
\* milliseconds at once.
C1_Witness ==
    /\ op = "tick"
    /\ started.elapsed > 0
    /\ startTimeRef > 0
    /\ time >= before.time + 2

\* C2: the elapsed time is a natural number; no step other than reset
\* decreases it, and no step other than reset changes it while the clock is
\* stopped.
C2_ElapsedMonotoneAndFrozen ==
    /\ time \in Nat
    /\ op # "reset" => time >= before.time
    /\ op # "reset" /\ WasStopped => time = before.time

\* The clock was paused at a positive time, stayed frozen while the wall
\* clock went on, was restarted and a tick moved it forward.
C2_Witness ==
    /\ op = "tick"
    /\ time > before.time
    /\ started.elapsed > 0
    /\ started.at > started.elapsed
    /\ before.time = started.elapsed

\* C3: start on a stopped clock sets isRunning and installs the interval;
\* start on a running clock changes nothing (run state, elapsed time,
\* origin, interval handle, laps).
C3_StartEffect ==
    op = "start" =>
        IF WasStopped
        THEN /\ isRunning
             /\ intervalRef # null
             /\ timers = {intervalRef}
             /\ time = before.time
             /\ lapTimes = before.lapTimes
        ELSE Snapshot = before

\* start was performed on a running clock that had time and laps.
C3_Witness ==
    /\ op = "start"
    /\ WasRunning
    /\ time > 0
    /\ lapTimes # <<>>
    /\ startTimeRef > 0

\* C4: pause on a running clock stops it, cancels the interval and keeps the
\* elapsed time and the laps; pause on a stopped clock changes nothing.
C4_PauseEffect ==
    op = "pause" =>
        /\ ~isRunning
        /\ intervalRef = null
        /\ timers = {}
        /\ time = before.time
        /\ lapTimes = before.lapTimes
        /\ WasStopped => Snapshot = before

\* pause was performed on a running clock whose interval was live, with
\* time on the clock and laps recorded.
C4_Witness ==
    /\ op = "pause"
    /\ WasRunning
    /\ before.intervalRef \in before.timers
    /\ time > 0
    /\ lapTimes # <<>>

\* C5: reset, in any state, leaves the clock stopped at 0 with no laps, the
\* lap counter at 1 and no interval live.
C5_ResetEffect ==
    op = "reset" =>
        /\ ~isRunning
        /\ time = 0
        /\ lapTimes = <<>>
        /\ lapCounter = 1
        /\ intervalRef = null
        /\ timers = {}

\* reset was performed on a running clock with time and laps.
C5_Witness ==
    /\ op = "reset"
    /\ WasRunning
    /\ before.time > 0
    /\ Len(before.lapTimes) >= 2
    /\ before.timers # {}

\* C6: recordLap on a stopped clock, or on a running clock at elapsed time
\* 0, changes nothing.
C6_LapNoOp ==
    op = "recordLap" /\ (WasStopped \/ before.time = 0) => Snapshot = before

\* recordLap was performed on a running clock before its first tick, with
\* the wall clock already past the start.
C6_Witness ==
    /\ op = "recordLap"
    /\ WasRunning
    /\ before.time = 0
    /\ now > started.at

\* C7: recordLap on a running clock at elapsed time t > 0 appends exactly one
\* entry: its number is the number of entries before the call plus one, its
\* total is t, its split is t minus the total of the previously last entry
\* (t when there was none).  Laps at 1000, 2500 and 4000 give the splits
\* 1000, 1500, 1500.
C7_LapAppended ==
    /\ op = "recordLap" /\ WasRunning /\ before.time > 0 =>
          /\ Len(lapTimes) = Len(before.lapTimes) + 1
          /\ SubSeq(lapTimes, 1, Len(before.lapTimes)) = before.lapTimes
          /\ Last(lapTimes).lapNumber = Len(before.lapTimes) + 1
          /\ Last(lapTimes).totalTime = before.time
          /\ Last(lapTimes).lapTime =
                before.time - (IF before.lapTimes = <<>> THEN 0
                               ELSE Last(before.lapTimes).totalTime)
    /\ LET l1 == NewLap(0, 1, 1000, <<>>)
           l2 == NewLap(0, 2, 2500, <<l1>>)
           l3 == NewLap(0, 3, 4000, <<l1, l2>>)
       IN  <<l1.lapTime, l2.lapTime, l3.lapTime>> = <<1000, 1500, 1500>>

\* The third lap was recorded, the three laps taken at different times with
\* different splits.
C7_Witness ==
    /\ op = "recordLap"
    /\ Len(lapTimes) = 3
    /\ Len(before.lapTimes) = 2
    /\ <<lapTimes[1].totalTime, lapTimes[2].totalTime, lapTimes[3].totalTime>>
          = <<1, 2, 4>>

\* C8: the totals of the lap entries are strictly increasing along the lap
\* history.
C8_TotalsStrictlyIncreasing ==
    \A i \in 1..(Len(lapTimes) - 1) :
        lapTimes[i].totalTime < lapTimes[i + 1].totalTime

\* C9: whenever the lap history is not empty, the splits of its entries add
\* up to the total of its last entry, also for laps recorded after a clear
\* on a running clock.
C9_SplitsSumToTotal ==
    lapTimes # <<>> => SumLapTime(lapTimes) = Last(lapTimes).totalTime

\* Two laps recorded after the laps were cleared on a running clock.
C9_Witness ==
    /\ cleared
    /\ Len(lapTimes) >= 2
    /\ lapTimes[1].totalTime >= 2
    /\ lapTimes[2].totalTime > lapTimes[1].totalTime

\* C10: clear empties the lap history and puts the lap counter back to 1, so
\* that the next lap is number 1, and leaves the run state, the elapsed
\* time, the origin and the interval as they were.
C10_ClearEffect ==
    /\ op = "clear" =>
          /\ lapTimes = <<>>
          /\ lapCounter = 1
          /\ isRunning = before.isRunning
          /\ time = before.time
          /\ startTimeRef = before.startTimeRef
          /\ intervalRef = before.intervalRef
          /\ timers = before.timers
    /\ op = "recordLap" /\ before.lapTimes = <<>> /\ lapTimes # <<>> =>
          lapTimes[1].lapNumber = 1

\* clear was performed on a running clock with laps and time on it.
C10_Witness ==
    /\ op = "clear"
    /\ before.lapTimes # <<>>
    /\ isRunning
    /\ time > 0
    /\ intervalRef \in timers

\* C11: at most one sampling interval is live, one is live only while the
\* clock is running on a mounted component, and none is live after pause,
\* after reset or after the component is unmounted; so the elapsed time
\* cannot change once one of them has completed.
C11_NoLeakedInterval ==
    /\ Cardinality(timers) <= 1
    /\ timers # {} => isRunning /\ mounted /\ timers = {intervalRef}
    /\ op \in {"pause", "reset", "unmount"} => timers = {}
    /\ ~mounted => timers = {}

\* The component was unmounted while the clock was running with its interval
\* live.
C11_Witness ==
    /\ op = "unmount"
    /\ ~mounted
    /\ WasRunning
    /\ before.timers = {before.intervalRef}
    /\ time > 0

\* C15: the lap history is append-only: a step leaves it as it was, or
\* recordLap appends one entry behind the unchanged earlier entries, or clear
\* or reset empties it; start, pause and tick never change it.
C15_LapsAppendOnly ==
    /\ \/ lapTimes = before.lapTimes
       \/ /\ op = "recordLap"
          /\ Len(lapTimes) = Len(before.lapTimes) + 1
          /\ SubSeq(lapTimes, 1, Len(before.lapTimes)) = before.lapTimes
       \/ /\ op \in {"clear", "reset"}
          /\ lapTimes = <<>>
    /\ op \in {"start", "pause", "tick", "advance", "unmount"} =>
          lapTimes = before.lapTimes

\* A lap was appended behind two earlier laps of different totals.
C15_Witness ==
    /\ op = "recordLap"
    /\ Len(before.lapTimes) = 2
    /\ Len(lapTimes) = 3
    /\ lapTimes[1].totalTime < lapTimes[2].totalTime
    /\ cleared

\* C18: the lap counter is the length of the lap history plus one, and the
\* entry at position i has lap number i, also after clear and reset.
C18_LapNumbersDense ==
    /\ lapCounter = Len(lapTimes) + 1
    /\ \A i \in 1..Len(lapTimes) : lapTimes[i].lapNumber = i

\* Laps recorded again after the laps were cleared on a running clock that
\* had been reset and restarted before.
C18_Witness ==
    /\ cleared
    /\ Len(lapTimes) = 2
    /\ started.at > 0
    /\ started.elapsed = 0
    /\ op = "recordLap"

\* C19: every lap entry has a total > 0 and a split >= 0, and the total of
\* the last entry is at most the current elapsed time.
C19_LapsWithinClock ==
    /\ \A i \in 1..Len(lapTimes) :
          /\ lapTimes[i].totalTime > 0
          /\ lapTimes[i].lapTime >= 0
    /\ lapTimes # <<>> => Last(lapTimes).totalTime <= time

\* The clock was paused and restarted with laps on it, went on past the
\* last lap, and one of the laps has split 0.
C19_Witness ==
    /\ Len(lapTimes) >= 2
    /\ started.elapsed > 0
    /\ isRunning
    /\ Last(lapTimes).lapTime = 0
    /\ Last(lapTimes).totalTime < time

\* C12: Space performs pause on a running clock and start otherwise; R with
\* Ctrl or Cmd performs reset; L with Ctrl or Cmd performs recordLap with
\* the current elapsed time; every key event that performs one of them has
\* its default handling suppressed.
C12_KeyMap ==
    event # NoEvent =>
        /\ event.code = "Space" /\ WasRunning =>
              op = "pause" /\ ~isRunning /\ timers = {} /\ time = before.time
        /\ event.code = "Space" /\ WasStopped =>
              op = "start" /\ isRunning /\ timers = {intervalRef}
                           /\ startTimeRef = now - before.time
        /\ event.code = "KeyR" /\ (event.ctrlKey \/ event.metaKey) =>
              op = "reset" /\ ~isRunning /\ time = 0 /\ lapTimes = <<>>
                           /\ lapCounter = 1 /\ timers = {}
        /\ event.code = "KeyL" /\ (event.ctrlKey \/ event.metaKey) =>
              /\ op = "recordLap"
              /\ IF WasRunning /\ before.time > 0
                 THEN /\ Len(lapTimes) = Len(before.lapTimes) + 1
                      /\ Last(lapTimes).totalTime = before.time
                 ELSE Snapshot = before
        /\ op # "none" => event.defaultPrevented

\* Cmd+L was handled on a clock that had been paused and restarted with
\* Space, and recorded a lap, with the default handling suppressed.
C12_Witness ==
    /\ event.code = "KeyL"
    /\ event.metaKey
    /\ ~event.ctrlKey
    /\ event.defaultPrevented
    /\ started.elapsed > 0
    /\ Len(lapTimes) = 1
    /\ Len(before.lapTimes) = 0
    /\ lapTimes[1].totalTime > started.elapsed

\* Reading a string of decimal digits back as a number.
DigitValue(c) ==
    CASE c = "0" -> 0 [] c = "1" -> 1 [] c = "2" -> 2 [] c = "3" -> 3
      [] c = "4" -> 4 [] c = "5" -> 5 [] c = "6" -> 6 [] c = "7" -> 7
      [] c = "8" -> 8 [] c = "9" -> 9

IsDigits(str) ==
    \A i \in 1..Len(str) :
        str[i] \in {"0", "1", "2", "3", "4", "5", "6", "7", "8", "9"}

RECURSIVE ParseNat(_)
ParseNat(str) ==
    IF str = <<>> THEN 0
    ELSE 10 * ParseNat(SubSeq(str, 1, Len(str) - 1)) + DigitValue(str[Len(str)])

\* C13: the display of elapsed time t is MM:SS.CC: CC the two digits of
\* floor((t mod 1000) / 10), SS the two digits of floor((t mod 60000) / 1000),
\* MM floor(t / 60000) in two digits, or in all its digits without leading
\* zero above 99; formatTime(61005) is "01:01.00" and formatTime(999) is
\* "00:00.99".
C13_FormatTime ==
    /\ LET n  == Len(display)
           mm == SubSeq(display, 1, n - 6)
           ss == SubSeq(display, n - 4, n - 3)
           cc == SubSeq(display, n - 1, n)
       IN  /\ n >= 8
           /\ display[n - 5] = ":"
           /\ display[n - 2] = "."
           /\ IsDigits(mm) /\ IsDigits(ss) /\ IsDigits(cc)
           /\ ParseNat(cc) = (time % 1000) \div 10
           /\ ParseNat(ss) = (time % 60000) \div 1000
           /\ ParseNat(mm) = time \div 60000
           /\ IF time \div 60000 <= 99 THEN Len(mm) = 2 ELSE mm[1] # "0"
    /\ formatTime(61005) = <<"0", "1", ":", "0", "1", ".", "0", "0">>
    /\ formatTime(999) = <<"0", "0", ":", "0", "0", ".", "9", "9">>

\* A tick on the restarted clock rendered 100 minutes, 59 seconds and 999
\* milliseconds.
C13_Witness ==
    /\ op = "tick"
    /\ time = 6059999
    /\ display = <<"1", "0", "0", ":", "5", "9", ".", "9", "9">>

\* What a user observes of an instance: the elapsed time, the run state and
\* the laps with their numbers, splits and totals.
Observable(t, r, laps) ==
    [time |-> t, isRunning |-> r,
     laps |-> [i \in 1..Len(laps) |->
                  [lapNumber |-> laps[i].lapNumber, lapTime |-> laps[i].lapTime,
                   totalTime |-> laps[i].totalTime]]]

\* C14: after a reset, whatever sequence of start, pause, recordLap, clear
\* and tick events follows, the stopwatch shows the same elapsed time, run
\* state and laps as an instance created at the instant of the reset that is
\* given the same events at the same offsets.
C14_ResetIsFresh ==
    Observable(time, isRunning, lapTimes)
        = Observable(fresh.time, fresh.isRunning, fresh.lapTimes)

\* After a reset at a later instant the clock was started again, paused,
\* restarted and ticked on, and two laps were recorded.
C14_Witness ==
    /\ fresh.born > 0
    /\ startTimeRef > fresh.born
    /\ started.elapsed > 0
    /\ time > started.elapsed
    /\ Len(lapTimes) = 2
    /\ lapTimes[2].totalTime > lapTimes[1].totalTime

\* C16: with the wall clock going on and the interval firing, a running
\* clock that shows elapsed time v before the end of the model's clock
\* comes to show more than v, unless it is paused, reset or unmounted; from
\* 0 it comes to enable the Lap button.
C16_ElapsedGrows ==
    /\ \A v \in 0..MaxNow :
          (isRunning /\ mounted /\ time = v /\ now < MaxNow)
              ~> (time > v \/ ~isRunning \/ ~mounted)
    /\ (isRunning /\ mounted /\ time = 0 /\ now < MaxNow)
              ~> (~LapDisabled \/ ~isRunning \/ ~mounted)

\* The first tick after a start from 0 moved the clock and enabled the Lap
\* button.
C16_Witness ==
    /\ op = "tick"
    /\ before.time = 0
    /\ started.elapsed = 0
    /\ time > 0
    /\ ~LapDisabled

\* C17: also when start requests are handled before the component
\* re-renders, at most one interval is live and intervalRef refers to it, so
\* that no interval is live after a pause or a reset.
C17_OneLiveInterval ==
    /\ Cardinality(timers) <= 1
    /\ timers # {} => timers = {intervalRef}
    /\ op \in {"pause", "reset"} => timers = {}

====
